---- MODULE Spec2Model ----
(***************************************************************************)
(* CD-pipeline creation and read flows of the admin console                *)
(* (service/cd_pipeline.go).                                               *)
(*                                                                         *)
(* Two stores are involved: the relational read model (variable db, only   *)
(* ever queried by this service) and the orchestrator resource store       *)
(* (variables pipelineCRs and stageCRs, bags of custom resources).         *)
(* CreatePipeline is split into one action per store call, so that calls   *)
(* of concurrent requests interleave at the granularity of the Go code.    *)
(* Strings are sequences of characters, so that fmt.Sprintf("%s-%s", ..)   *)
(* is real concatenation and name collisions can happen.                   *)
(***************************************************************************)
EXTENDS Integers, Sequences, FiniteSets, Bags, TLC

VARIABLES
    db,             \* read-model store: set of pipeline rows
    pipelineCRs,    \* resource store, kind cdpipelines: bag of resources
    stageCRs,       \* resource store, kind stages: bag of resources
    pc,             \* per request: position inside CreatePipeline
    cmd,            \* per request: the CDPipelineCreateCommand argument
    idx,            \* per request: loop index of checkStagesInK8s / saveStagesIntoK8s
    cdPipelineCr,   \* per request: local cdPipelineCr (line 95), Nil until the Post succeeded
    stagesCr,       \* per request: local stagesCr of saveStagesIntoK8s (line 276)
    ret,            \* per request: returned (result, err)
    calls,          \* per request: store calls issued so far, in order
    pre,            \* per request: resource store as it was when the call started
    overlap,        \* per request: whether another request was in flight during the call
    view            \* result of the last read operation

vars == <<db, pipelineCRs, stageCRs, pc, cmd, idx, cdPipelineCr, stagesCr,
          ret, calls, pre, overlap, view>>

createVars == <<pc, cmd, idx, cdPipelineCr, stagesCr, ret, calls, pre, overlap>>

-----------------------------------------------------------------------------
(* Bounds and input domains *)

\* largest number of stages in one creation command
MaxStages == 2

\* largest number of stage rows of one pipeline in the read model
MaxDbStages == 3

\* largest Order value of a stage row in the read model
MaxOrder == 2

\* the requests, numbered in the order in which they arrive
Reqs == {1, 2}

\* a nil pointer
Nil == [IsNil |-> TRUE]

\* a nil error
NoErr == "nil"

\* "ab" and "ab-cd": both match the name pattern of CDPipelineCreateCommand.Name
PipelineNames == { <<"a", "b">>, <<"a", "b", "-", "c", "d">> }

\* "ef" and "cd-ef": both match the name pattern of StageCreate.Name
StageNames == { <<"e", "f">>, <<"c", "d", "-", "e", "f">> }

\* the codebase/branch pairs known to the codebase service
ExistingBranches == { [ApplicationName |-> <<"s", "v", "c">>, BranchName |-> <<"m">>] }

UnknownBranch == [ApplicationName |-> <<"s", "v", "c">>, BranchName |-> <<"x">>]

KnownBranch == [ApplicationName |-> <<"s", "v", "c">>, BranchName |-> <<"m">>]

\* the application lists of the commands: all resolving, or the second not
ApplicationLists == { <<KnownBranch>>, <<KnownBranch, UnknownBranch>> }

\* the stage lists of the commands: any names, repeated ones included, the
\* stages numbered by their position
StageLists ==
    UNION { { [i \in 1..n |-> [Name |-> ns[i], Order |-> i - 1]] : ns \in [1..n -> StageNames] } :
            n \in 1..MaxStages }

CDPipelineCreateCommand ==
    [Name : PipelineNames, Applications : ApplicationLists, Stages : StageLists]

-----------------------------------------------------------------------------
(* Pure helpers of the service *)

\* fmt.Sprintf("%s-%s", a, b)
SprintfDash(a, b) == a \o <<"-">> \o b

Range(s) == { s[i] : i \in DOMAIN s }

SeqToBag(s) == [x \in Range(s) |-> Cardinality({ i \in DOMAIN s : s[i] = x })]

\* number of resources named n in a bag of resources
CountNamed(bag, n) ==
    LET hits == { x \in BagToSet(bag) : x.Name = n }
        RECURSIVE Sum(_)
        Sum(S) == IF S = {} THEN 0
                  ELSE LET x == CHOOSE y \in S : TRUE
                       IN CopiesIn(x, bag) + Sum(S \ {x})
    IN Sum(hits)

Exists(bag, n) == \E x \in BagToSet(bag) : x.Name = n

\* convertPipelineData: the branch references of the pipeline resource
convertPipelineData(c) ==
    [Name |-> c.Name,
     CodebaseBranch |-> [i \in DOMAIN c.Applications |->
        SprintfDash(c.Applications[i].ApplicationName, c.Applications[i].BranchName)]]

\* the pipeline resource built by CreatePipeline
PipelineCrd(c) ==
    [Name |-> c.Name, Spec |-> convertPipelineData(c), Status |-> "initialized"]

\* createCrd without the initial status
createCrdNoStatus(cdPipelineName, stage) ==
    [Name |-> SprintfDash(cdPipelineName, stage.Name),
     Spec |-> [Name |-> stage.Name, Order |-> stage.Order, CdPipeline |-> cdPipelineName],
     Status |-> ""]

\* createCrd: the stage resource of one requested stage
createCrd(cdPipelineName, stage) ==
    [Name |-> SprintfDash(cdPipelineName, stage.Name),
     Spec |-> [Name |-> stage.Name, Order |-> stage.Order, CdPipeline |-> cdPipelineName],
     Status |-> "initialized"]

\* the stage lookup asking for the bare stage name
checkStageNameBare(cdPipelineName, stage) == stage.Name

\* the resource name looked up by checkStagesInK8s
checkStageName(cdPipelineName, stage) == SprintfDash(cdPipelineName, stage.Name)

\* CodebaseService.checkAppAndBranch: every pair resolves
checkAppAndBranch(apps) == \A i \in DOMAIN apps : apps[i] \in ExistingBranches

-----------------------------------------------------------------------------
(* Configuration read by the link builders *)

\* context.Tenant
Tenant == <<"t">>

\* beego.AppConfig.String("dnsWildcard")
dnsWildcard == <<"w">>

-----------------------------------------------------------------------------
(* Read path: GetCDPipelineByName and its helpers *)

\* a stage row of the read model (query.Stage)
StageRow(id, name, order) ==
    [Id |-> id, Name |-> name, Order |-> order, OpenshiftProjectLink |-> <<>>]

\* a branch association of the read model, before enrichment
BranchRow(app, branch) ==
    [Name |-> branch, Codebase |-> [Name |-> app], AppName |-> <<>>,
     VCSLink |-> <<>>, CICDLink |-> <<>>]

\* a pipeline row of the read model (query.CDPipeline)
PipelineRow(name, stages, branches) ==
    [Name |-> name, JenkinsLink |-> <<>>, Stage |-> stages, CodebaseBranch |-> branches]

\* the permutations of 1..n
Perms(n) == { f \in [1..n -> 1..n] : \A i, j \in 1..n : i # j => f[i] # f[j] }

\* the comparison turned around
lessReversed(a, b) == a.Order > b.Order

\* the less function handed to sort.Slice: stages[i].Order < stages[j].Order
less(a, b) == a.Order < b.Order

\* sortStagesByOrder: sort.Slice is not a stable sort, so every arrangement
\* of the input in which no element is less than an earlier one can result
sortStagesByOrder(stages) ==
    { [i \in DOMAIN stages |-> stages[p[i]]] : p \in
        { q \in Perms(Len(stages)) :
            \A i, j \in 1..Len(stages) : i < j => ~less(stages[q[j]], stages[q[i]]) } }

\* the link template of createJenkinsLinks and createJenkinsLink
JenkinsLinkOf(name) ==
    <<"https://", "jenkins", "-">> \o Tenant \o <<"-edp-cicd.">> \o dnsWildcard
        \o <<"/job/">> \o SprintfDash(name, <<"cd-pipeline">>)

\* strings.ToUpper on the characters that occur in branch names
ToUpper(str) ==
    [i \in DOMAIN str |->
        CASE str[i] = "m" -> "M"
          [] str[i] = "x" -> "X"
          [] OTHER -> str[i]]

\* createLinksForBranchEntities
createLinksForBranchEntities(branches) ==
    [i \in DOMAIN branches |->
        [branches[i] EXCEPT
            !.VCSLink = <<"https://", "gerrit", "-">> \o Tenant \o <<"-edp-cicd.">>
                \o dnsWildcard \o <<"/gitweb?p=">> \o branches[i].Codebase.Name
                \o <<".git;a=shortlog;h=refs/heads/">> \o branches[i].Name,
            !.CICDLink = <<"https://", "jenkins", "-">> \o Tenant \o <<"-edp-cicd.">>
                \o dnsWildcard \o <<"/job/">> \o branches[i].Codebase.Name
                \o <<"/view/">> \o ToUpper(branches[i].Name)]]

\* createJenkinsLink
createJenkinsLink(p) ==
    [p EXCEPT !.JenkinsLink = JenkinsLinkOf(p.Name),
              !.CodebaseBranch = createLinksForBranchEntities(p.CodebaseBranch)]

\* createJenkinsLinks building the job link without the cd-pipeline suffix
createJenkinsLinksOtherTemplate(ps) ==
    [i \in DOMAIN ps |->
        [ps[i] EXCEPT !.JenkinsLink =
            <<"https://", "jenkins", "-">> \o Tenant \o <<"-edp-cicd.">> \o dnsWildcard
                \o <<"/job/">> \o ps[i].Name]]

\* createJenkinsLinks linking the first pipeline only
createJenkinsLinksFirstOnly(ps) ==
    [i \in DOMAIN ps |->
        IF i = 1 THEN [ps[i] EXCEPT !.JenkinsLink = JenkinsLinkOf(ps[i].Name)] ELSE ps[i]]

\* createJenkinsLinks
createJenkinsLinks(ps) ==
    [i \in DOMAIN ps |-> [ps[i] EXCEPT !.JenkinsLink = JenkinsLinkOf(ps[i].Name)]]

\* createOpenshiftProjectLinks giving every stage the link of the first one
createOpenshiftProjectLinksOfFirst(stages, cdPipelineName) ==
    [i \in DOMAIN stages |->
        [stages[i] EXCEPT !.OpenshiftProjectLink =
            <<"https://master.">> \o dnsWildcard \o <<"/console/project/">>
                \o Tenant \o <<"-">> \o cdPipelineName \o <<"-">> \o stages[1].Name]]

\* createOpenshiftProjectLinks
createOpenshiftProjectLinks(stages, cdPipelineName) ==
    [i \in DOMAIN stages |->
        [stages[i] EXCEPT !.OpenshiftProjectLink =
            <<"https://master.">> \o dnsWildcard \o <<"/console/project/">>
                \o Tenant \o <<"-">> \o cdPipelineName \o <<"-">> \o stages[i].Name]]

\* ICDPipelineRepository.GetCDPipelineByName: the row of that name, or Nil
FindPipelineByName(name) ==
    IF \E row \in db : row.Name = name
    THEN CHOOSE row \in db : row.Name = name
    ELSE Nil

\* the views GetCDPipelineByName can build from a row (lines 121-133)
EnrichedViews(row) ==
    LET linked == createJenkinsLink(row)
        withApp == [linked EXCEPT !.CodebaseBranch =
                       [i \in DOMAIN linked.CodebaseBranch |->
                           [linked.CodebaseBranch[i] EXCEPT
                               !.AppName = linked.CodebaseBranch[i].Codebase.Name]]]
    IN  IF Len(row.Stage) # 0
        THEN { [withApp EXCEPT !.Stage = createOpenshiftProjectLinks(sorted, row.Name)] :
                   sorted \in sortStagesByOrder(row.Stage) }
        ELSE { withApp }

\* GetCDPipelineByName reporting an absent pipeline as an error
GetCDPipelineByNameAbsentIsError(pipelineName) ==
    { [result |-> Nil, err |-> "ErrDatabase"] } \cup
    ( IF FindPipelineByName(pipelineName) = Nil
      THEN { [result |-> Nil, err |-> "ErrNotFound"] }
      ELSE { [result |-> v, err |-> NoErr] :
                 v \in EnrichedViews(FindPipelineByName(pipelineName)) } )

\* CDPipelineService.GetCDPipelineByName: the (result, err) pairs it can return
GetCDPipelineByName(pipelineName) ==
    { [result |-> Nil, err |-> "ErrDatabase"] } \cup
    ( IF FindPipelineByName(pipelineName) = Nil
      THEN { [result |-> Nil, err |-> NoErr] }
      ELSE { [result |-> v, err |-> NoErr] :
                 v \in EnrichedViews(FindPipelineByName(pipelineName)) } )

-----------------------------------------------------------------------------
(* Resource store calls, as seen by the service *)

\* getCDPipelineCR answering (nil, nil) for a resource that was found
getCDPipelineCRFoundAsNil(pipelineName) ==
    { [result |-> Nil, err |-> "ErrK8sGet"], [result |-> Nil, err |-> NoErr] }

\* getCDPipelineCR: the (result, err) pairs the lookup can return; NotFound
\* becomes (nil, nil), any other lookup error is returned as it is
getCDPipelineCR(pipelineName) ==
    { [result |-> Nil, err |-> "ErrK8sGet"] } \cup
    ( IF Exists(pipelineCRs, pipelineName)
      THEN { [result |-> x, err |-> NoErr] :
                 x \in { y \in BagToSet(pipelineCRs) : y.Name = pipelineName } }
      ELSE { [result |-> Nil, err |-> NoErr] } )

\* the error of one iteration of checkStagesInK8s (lines 293-310), NoErr to continue
checkStageInK8s(cdPipelineName, stage) ==
    { "ErrK8sGet" } \cup
    ( IF Exists(stageCRs, checkStageName(cdPipelineName, stage))
      THEN { "ErrStageExists" }
      ELSE { NoErr } )

\* a store that accepts a create of a taken name
PostErrorsAccepting(bag, n) == { "ErrK8sCreate", NoErr }

\* the error a create of a resource named n can return: the store rejects a
\* name that is taken, and any create can fail for another reason
PostErrors(bag, n) ==
    { "ErrK8sCreate" } \cup (IF Exists(bag, n) THEN { "ErrK8sAlreadyExists" } ELSE { NoErr })

-----------------------------------------------------------------------------
(* CreatePipeline, one action per store call *)

Active(q) == pc[q] \notin {"idle", "done"}

Log(r, call) == calls' = [calls EXCEPT ![r] = Append(@, call)]

\* return (result, err) from CreatePipeline
Return(r, result, err) ==
    /\ pc' = [pc EXCEPT ![r] = "done"]
    /\ ret' = [ret EXCEPT ![r] = [result |-> result, err |-> err]]

\* CreatePipeline going on after a failed reference check
CreatePipelineBeginNoRefCheck(r, c) ==
    /\ pc[r] = "idle"
    /\ \A q \in Reqs : q < r => pc[q] # "idle"
    /\ cmd' = [cmd EXCEPT ![r] = c]
    /\ pre' = [pre EXCEPT ![r] = [pipelines |-> pipelineCRs, stages |-> stageCRs]]
    /\ overlap' = [q \in Reqs |->
                     IF q = r THEN \E o \in Reqs \ {r} : Active(o)
                     ELSE overlap[q] \/ Active(q)]
    /\ pc' = [pc EXCEPT ![r] = "readModel"]
    /\ UNCHANGED <<db, pipelineCRs, stageCRs, idx, cdPipelineCr, stagesCr, ret, calls, view>>

\* lines 50-56: entry and reference check
CreatePipelineBegin(r, c) ==
    /\ pc[r] = "idle"
    /\ \A q \in Reqs : q < r => pc[q] # "idle"
    /\ cmd' = [cmd EXCEPT ![r] = c]
    /\ pre' = [pre EXCEPT ![r] = [pipelines |-> pipelineCRs, stages |-> stageCRs]]
    /\ overlap' = [q \in Reqs |->
                     IF q = r THEN \E o \in Reqs \ {r} : Active(o)
                     ELSE overlap[q] \/ Active(q)]
    /\ IF ~checkAppAndBranch(c.Applications)
       THEN Return(r, Nil, "ErrNonValidRelatedBranch")
       ELSE /\ pc' = [pc EXCEPT ![r] = "readModel"]
            /\ ret' = ret
    /\ UNCHANGED <<db, pipelineCRs, stageCRs, idx, cdPipelineCr, stagesCr, calls, view>>

\* the read-model check without the test of the row found
CheckReadModelIgnoresRow(r) ==
    /\ pc[r] = "readModel"
    /\ Log(r, "db.GetCDPipelineByName")
    /\ \E o \in GetCDPipelineByName(cmd[r].Name) :
          IF o.err # NoErr THEN Return(r, Nil, o.err)
          ELSE /\ pc' = [pc EXCEPT ![r] = "getCR"]
               /\ ret' = ret
    /\ UNCHANGED <<db, pipelineCRs, stageCRs, cmd, idx, cdPipelineCr, stagesCr,
                   pre, overlap, view>>

\* lines 58-66: read-model existence check
CheckReadModel(r) ==
    /\ pc[r] = "readModel"
    /\ Log(r, "db.GetCDPipelineByName")
    /\ \E o \in GetCDPipelineByName(cmd[r].Name) :
          IF o.err # NoErr THEN Return(r, Nil, o.err)
          ELSE IF o.result # Nil THEN Return(r, Nil, "ErrCDPipelineIsExists")
          ELSE /\ pc' = [pc EXCEPT ![r] = "getCR"]
               /\ ret' = ret
    /\ UNCHANGED <<db, pipelineCRs, stageCRs, cmd, idx, cdPipelineCr, stagesCr,
                   pre, overlap, view>>

\* the resource-store check without the test of the resource found
CheckPipelineCRIgnoresResource(r) ==
    /\ pc[r] = "getCR"
    /\ Log(r, "k8s.GetPipeline")
    /\ \E o \in getCDPipelineCR(cmd[r].Name) :
          IF o.err # NoErr THEN Return(r, Nil, o.err)
          ELSE /\ pc' = [pc EXCEPT ![r] = "postPipeline"]
               /\ ret' = ret
    /\ UNCHANGED <<db, pipelineCRs, stageCRs, cmd, idx, cdPipelineCr, stagesCr,
                   pre, overlap, view>>

\* the resource-store check taken under a lock on the pipeline name, held
\* from the check to the return
CheckPipelineCRLocked(r) ==
    /\ pc[r] = "getCR"
    /\ \A q \in Reqs \ {r} :
          cmd[q].Name = cmd[r].Name => pc[q] \in {"idle", "readModel", "getCR", "done"}
    /\ Log(r, "k8s.GetPipeline")
    /\ \E o \in getCDPipelineCR(cmd[r].Name) :
          IF o.err # NoErr THEN Return(r, Nil, o.err)
          ELSE IF o.result # Nil THEN Return(r, Nil, "ErrCDPipelineIsExists")
          ELSE /\ pc' = [pc EXCEPT ![r] = "postPipeline"]
               /\ ret' = ret
    /\ UNCHANGED <<db, pipelineCRs, stageCRs, cmd, idx, cdPipelineCr, stagesCr,
                   pre, overlap, view>>

\* lines 68-77: resource-store existence check
CheckPipelineCR(r) ==
    /\ pc[r] = "getCR"
    /\ Log(r, "k8s.GetPipeline")
    /\ \E o \in getCDPipelineCR(cmd[r].Name) :
          IF o.err # NoErr THEN Return(r, Nil, o.err)
          ELSE IF o.result # Nil THEN Return(r, Nil, "ErrCDPipelineIsExists")
          ELSE /\ pc' = [pc EXCEPT ![r] = "postPipeline"]
               /\ ret' = ret
    /\ UNCHANGED <<db, pipelineCRs, stageCRs, cmd, idx, cdPipelineCr, stagesCr,
                   pre, overlap, view>>

\* where CreateStages starts for a command: the check loop, or straight to
\* the successful return when there is no stage
AfterPipelinePost(r) ==
    IF Len(cmd[r].Stages) = 0
    THEN Return(r, PipelineCrd(cmd[r]), NoErr)
    ELSE /\ pc' = [pc EXCEPT ![r] = "checkStages"]
         /\ ret' = ret

\* the pipeline create with its error dropped: the stages follow anyway
PostPipelineIgnoresError(r) ==
    /\ pc[r] = "postPipeline"
    /\ Log(r, "k8s.PostPipeline")
    /\ \E err \in PostErrors(pipelineCRs, cmd[r].Name) :
          /\ IF err # NoErr
             THEN UNCHANGED <<pipelineCRs, cdPipelineCr>>
             ELSE /\ pipelineCRs' = pipelineCRs (+) SetToBag({PipelineCrd(cmd[r])})
                  /\ cdPipelineCr' = [cdPipelineCr EXCEPT ![r] = PipelineCrd(cmd[r])]
          /\ idx' = [idx EXCEPT ![r] = 1]
          /\ AfterPipelinePost(r)
    /\ UNCHANGED <<db, stageCRs, cmd, stagesCr, pre, overlap, view>>

\* the pipeline create inserting the pipeline's row into the read model too
PostPipelineWritesReadModel(r) ==
    /\ pc[r] = "postPipeline"
    /\ Log(r, "k8s.PostPipeline")
    /\ \E err \in PostErrors(pipelineCRs, cmd[r].Name) :
          IF err # NoErr
          THEN /\ Return(r, Nil, err)
               /\ UNCHANGED <<db, pipelineCRs, cdPipelineCr, idx>>
          ELSE /\ pipelineCRs' = pipelineCRs (+) SetToBag({PipelineCrd(cmd[r])})
               /\ db' = db \cup { PipelineRow(cmd[r].Name, <<>>, <<>>) }
               /\ cdPipelineCr' = [cdPipelineCr EXCEPT ![r] = PipelineCrd(cmd[r])]
               /\ idx' = [idx EXCEPT ![r] = 1]
               /\ AfterPipelinePost(r)
    /\ UNCHANGED <<stageCRs, cmd, stagesCr, pre, overlap, view>>

\* lines 79-102: build and persist the pipeline resource
PostPipeline(r) ==
    /\ pc[r] = "postPipeline"
    /\ Log(r, "k8s.PostPipeline")
    /\ \E err \in PostErrors(pipelineCRs, cmd[r].Name) :
          IF err # NoErr
          THEN /\ Return(r, Nil, err)
               /\ UNCHANGED <<pipelineCRs, cdPipelineCr, idx>>
          ELSE /\ pipelineCRs' = pipelineCRs (+) SetToBag({PipelineCrd(cmd[r])})
               /\ cdPipelineCr' = [cdPipelineCr EXCEPT ![r] = PipelineCrd(cmd[r])]
               /\ idx' = [idx EXCEPT ![r] = 1]
               /\ AfterPipelinePost(r)
    /\ UNCHANGED <<db, stageCRs, cmd, stagesCr, pre, overlap, view>>

\* checkStagesInK8s returning after its first iteration instead of continuing
CheckStageFirstOnly(r) ==
    /\ pc[r] = "checkStages"
    /\ Log(r, "k8s.GetStage")
    /\ \E err \in checkStageInK8s(cmd[r].Name, cmd[r].Stages[idx[r]]) :
          IF err # NoErr
          THEN /\ Return(r, Nil, err)
               /\ idx' = idx
          ELSE /\ idx' = [idx EXCEPT ![r] = 1]
               /\ pc' = [pc EXCEPT ![r] = "saveStages"]
               /\ ret' = ret
    /\ UNCHANGED <<db, pipelineCRs, stageCRs, cmd, cdPipelineCr, stagesCr,
                   pre, overlap, view>>

\* checkStagesInK8s asking again when a lookup itself fails
CheckStageRetries(r) ==
    /\ pc[r] = "checkStages"
    /\ Log(r, "k8s.GetStage")
    /\ \E err \in checkStageInK8s(cmd[r].Name, cmd[r].Stages[idx[r]]) :
          IF err = "ErrK8sGet"
          THEN UNCHANGED <<pc, ret, idx>>
          ELSE IF err # NoErr
          THEN /\ Return(r, Nil, err)
               /\ idx' = idx
          ELSE IF idx[r] < Len(cmd[r].Stages)
          THEN /\ idx' = [idx EXCEPT ![r] = @ + 1]
               /\ UNCHANGED <<pc, ret>>
          ELSE /\ idx' = [idx EXCEPT ![r] = 1]
               /\ pc' = [pc EXCEPT ![r] = "saveStages"]
               /\ ret' = ret
    /\ UNCHANGED <<db, pipelineCRs, stageCRs, cmd, cdPipelineCr, stagesCr,
                   pre, overlap, view>>

\* lines 141-145 and 291-313: one iteration of checkStagesInK8s
CheckStage(r) ==
    /\ pc[r] = "checkStages"
    /\ Log(r, "k8s.GetStage")
    /\ \E err \in checkStageInK8s(cmd[r].Name, cmd[r].Stages[idx[r]]) :
          IF err # NoErr
          THEN /\ Return(r, Nil, err)
               /\ idx' = idx
          ELSE IF idx[r] < Len(cmd[r].Stages)
          THEN /\ idx' = [idx EXCEPT ![r] = @ + 1]
               /\ UNCHANGED <<pc, ret>>
          ELSE /\ idx' = [idx EXCEPT ![r] = 1]
               /\ pc' = [pc EXCEPT ![r] = "saveStages"]
               /\ ret' = ret
    /\ UNCHANGED <<db, pipelineCRs, stageCRs, cmd, cdPipelineCr, stagesCr,
                   pre, overlap, view>>

\* saveStagesIntoK8s going on to the next stage after a failed create
SaveStageContinuesOnError(r) ==
    /\ pc[r] = "saveStages"
    /\ Log(r, "k8s.PostStage")
    /\ LET crd == createCrd(cmd[r].Name, cmd[r].Stages[idx[r]])
       IN \E err \in PostErrors(stageCRs, crd.Name) :
          /\ IF err # NoErr
             THEN UNCHANGED <<stageCRs, stagesCr>>
             ELSE /\ stageCRs' = stageCRs (+) SetToBag({crd})
                  /\ stagesCr' = [stagesCr EXCEPT ![r] = Append(@, crd)]
          /\ IF idx[r] < Len(cmd[r].Stages)
             THEN /\ idx' = [idx EXCEPT ![r] = @ + 1]
                  /\ UNCHANGED <<pc, ret>>
             ELSE /\ idx' = idx
                  /\ IF err # NoErr THEN Return(r, Nil, err)
                     ELSE Return(r, cdPipelineCr[r], NoErr)
    /\ UNCHANGED <<db, pipelineCRs, cmd, cdPipelineCr, pre, overlap, view>>

\* lines 147-152, 275-289 and 109-111: one iteration of saveStagesIntoK8s,
\* and the successful return after the last one
SaveStage(r) ==
    /\ pc[r] = "saveStages"
    /\ Log(r, "k8s.PostStage")
    /\ LET crd == createCrd(cmd[r].Name, cmd[r].Stages[idx[r]])
       IN \E err \in PostErrors(stageCRs, crd.Name) :
          IF err # NoErr
          THEN /\ Return(r, Nil, err)
               /\ UNCHANGED <<stageCRs, stagesCr, idx>>
          ELSE /\ stageCRs' = stageCRs (+) SetToBag({crd})
               /\ stagesCr' = [stagesCr EXCEPT ![r] = Append(@, crd)]
               /\ IF idx[r] < Len(cmd[r].Stages)
                  THEN /\ idx' = [idx EXCEPT ![r] = @ + 1]
                       /\ UNCHANGED <<pc, ret>>
                  ELSE /\ idx' = idx
                       /\ Return(r, cdPipelineCr[r], NoErr)
    /\ UNCHANGED <<db, pipelineCRs, cmd, cdPipelineCr, pre, overlap, view>>

-----------------------------------------------------------------------------
(* Specification of the creation flow *)

NoCmd == [Name |-> <<>>, Applications |-> <<>>, Stages |-> <<>>]

NoRet == [result |-> Nil, err |-> "pending"]

\* no read operation has returned yet
NoView == [op |-> "none", arg |-> <<>>, result |-> Nil, err |-> "pending"]

\* what a reader holds after a read: the operation, its argument, its result
Answer(op, arg, o) == [op |-> op, arg |-> arg, result |-> o.result, err |-> o.err]

EmptyStore == [pipelines |-> EmptyBag, stages |-> EmptyBag]

\* the rows the read model holds while creations run: at most one per name
CreateDbRows ==
    { PipelineRow(n, <<StageRow(1, <<"e", "f">>, 0)>>,
                  <<BranchRow(<<"s", "v", "c">>, <<"m">>)>>) : n \in PipelineNames }

InitCreate ==
    /\ pipelineCRs = EmptyBag
    /\ stageCRs = EmptyBag
    /\ pc = [r \in Reqs |-> "idle"]
    /\ cmd = [r \in Reqs |-> NoCmd]
    /\ idx = [r \in Reqs |-> 1]
    /\ cdPipelineCr = [r \in Reqs |-> Nil]
    /\ stagesCr = [r \in Reqs |-> <<>>]
    /\ ret = [r \in Reqs |-> NoRet]
    /\ calls = [r \in Reqs |-> <<>>]
    /\ pre = [r \in Reqs |-> EmptyStore]
    /\ overlap = [r \in Reqs |-> FALSE]
    /\ view = NoView

Init ==
    /\ db \in SUBSET CreateDbRows
    /\ InitCreate

Next ==
    \E r \in Reqs :
        \/ \E c \in CDPipelineCreateCommand : CreatePipelineBegin(r, c)
        \/ CheckReadModel(r)
        \/ CheckPipelineCR(r)
        \/ PostPipeline(r)
        \/ CheckStage(r)
        \/ SaveStage(r)

Spec == Init /\ [][Next]_vars

-----------------------------------------------------------------------------
(* Specification of the read path *)

\* GetCDPipelineByName called by a reader: the view, or the error, is the result
ReadPipelineByName(name) ==
    /\ view' \in { Answer("GetCDPipelineByName", name, o) :
                      o \in GetCDPipelineByName(name) }
    /\ UNCHANGED <<db, pipelineCRs, stageCRs>>
    /\ UNCHANGED createVars

\* the stage lists a pipeline row can hold: rows numbered by their Id, in
\* any order of their Order values, equal ones included
ReadStageLists ==
    UNION { { [i \in 1..n |-> StageRow(i, ns[i], os[i])] :
                ns \in [1..n -> StageNames], os \in [1..n -> 0..MaxOrder] } :
            n \in 0..MaxDbStages }

ReadDbRows ==
    { PipelineRow(n, stages, <<BranchRow(<<"s", "v", "c">>, <<"m">>)>>) :
          n \in PipelineNames, stages \in ReadStageLists }

InitRead ==
    /\ db \in {{}} \cup { {row} : row \in ReadDbRows }
    /\ InitCreate

NextRead == \E n \in PipelineNames : ReadPipelineByName(n)

SpecRead == InitRead /\ [][NextRead]_vars

-----------------------------------------------------------------------------
(* Specification of the whole service: one creation and the three reads *)

\* the filter of a list query: the pipelines whose name it admits
Criteria == SUBSET PipelineNames

\* ICDPipelineRepository.GetCDPipelines: the matching rows, in some order
FindPipelines(criteria) ==
    LET matches == { row \in db : row.Name \in criteria }
        n == Cardinality(matches)
    IN  { ps \in [1..n -> matches] : \A i, j \in 1..n : i # j => ps[i] # ps[j] }

\* CDPipelineService.GetAllPipelines: the (result, err) pairs it can return;
\* the nil slice returned with an error is the empty sequence
GetAllPipelines(criteria) ==
    { [result |-> <<>>, err |-> "ErrDatabase"] } \cup
    { [result |-> IF Len(ps) # 0 THEN createJenkinsLinks(ps) ELSE ps, err |-> NoErr] :
          ps \in FindPipelines(criteria) }

\* strconv of a single-digit Order
Itoa(n) == <<"0", "1", "2", "3", "4", "5", "6", "7", "8", "9">>[n + 1]

\* ICDPipelineRepository.GetStage: the stage view of that composite key, or Nil
FindStage(cdPipelineName, stageName) ==
    LET row == FindPipelineByName(cdPipelineName)
    IN  IF row # Nil /\ \E i \in DOMAIN row.Stage : row.Stage[i].Name = stageName
        THEN LET i == CHOOSE k \in DOMAIN row.Stage : row.Stage[k].Name = stageName
             IN  [Name |-> stageName, CDPipeline |-> cdPipelineName,
                  Order |-> Itoa(row.Stage[i].Order)]
        ELSE Nil

\* CDPipelineService.GetStage: the (result, err) pairs it can return
GetStage(cdPipelineName, stageName) ==
    { [result |-> Nil, err |-> "ErrDatabase"],
      [result |-> FindStage(cdPipelineName, stageName), err |-> NoErr] }

\* GetAllPipelines called by a reader
ReadAllPipelines(criteria) ==
    /\ view' \in { Answer("GetAllPipelines", criteria, o) : o \in GetAllPipelines(criteria) }
    /\ UNCHANGED <<db, pipelineCRs, stageCRs>>
    /\ UNCHANGED createVars

\* GetStage called by a reader
ReadStage(cdPipelineName, stageName) ==
    /\ view' \in { Answer("GetStage", <<cdPipelineName, stageName>>, o) :
                      o \in GetStage(cdPipelineName, stageName) }
    /\ UNCHANGED <<db, pipelineCRs, stageCRs>>
    /\ UNCHANGED createVars

\* the stage lists a caller of the service can send: any Order a digit of
\* the Order pattern allows, equal ones included
ServiceStageLists ==
    UNION { [1..n -> [Name : StageNames, Order : 0..1]] : n \in 1..MaxStages }

ServiceCommands ==
    [Name : PipelineNames, Applications : {<<KnownBranch>>, <<UnknownBranch>>},
     Stages : ServiceStageLists]

NextService ==
    \/ \E c \in ServiceCommands : CreatePipelineBegin(1, c)
    \/ CheckReadModel(1)
    \/ CheckPipelineCR(1)
    \/ PostPipeline(1)
    \/ CheckStage(1)
    \/ SaveStage(1)
    \/ \E n \in PipelineNames : ReadPipelineByName(n)
    \/ \E criteria \in Criteria : ReadAllPipelines(criteria)
    \/ \E n \in PipelineNames, s \in StageNames : ReadStage(n, s)

SpecService == Init /\ [][NextService]_vars

-----------------------------------------------------------------------------
(* Vocabulary of the properties *)

Done(r) == pc[r] = "done"

\* request r has returned, ran alone, and no later request has begun: the
\* resource store is what it was at the start of r plus what r wrote
After(r) ==
    /\ Done(r)
    /\ ~overlap[r]
    /\ \A q \in Reqs : q > r => pc[q] = "idle"

Resolves(c) == \A i \in DOMAIN c.Applications : c.Applications[i] \in ExistingBranches

InDb(n) == \E row \in db : row.Name = n

\* errors that are failures of a store call, not verdicts of the service
LookupFaults == {"ErrDatabase", "ErrK8sGet"}

StoreFaults == LookupFaults \cup {"ErrK8sCreate", "ErrK8sAlreadyExists"}

Issued(r, call) == \E i \in DOMAIN calls[r] : calls[r][i] = call

CountCalls(r, call) == Cardinality({ i \in DOMAIN calls[r] : calls[r][i] = call })

\* request r issued no create, and the resource store is as it was before r
NoWrites(r) ==
    /\ ~Issued(r, "k8s.PostPipeline")
    /\ ~Issued(r, "k8s.PostStage")
    /\ After(r) => pipelineCRs = pre[r].pipelines /\ stageCRs = pre[r].stages

DerivedName(c, i) == c.Name \o <<"-">> \o c.Stages[i].Name

\* the resources created between the start of r and now
NewPipelines(r) == pipelineCRs (-) pre[r].pipelines

NewStages(r) == stageCRs (-) pre[r].stages

-----------------------------------------------------------------------------
(* Properties of CreatePipeline *)

\* C1: a call that runs alone, whose references all resolve, whose name is in
\* neither store and whose derived stage names are not in the resource store,
\* and none of whose store calls fails, returns the persisted pipeline
\* resource and no error; the resource store gains exactly one pipeline
\* resource and one stage resource per requested stage, all "initialized".
C1_CreateSucceeds ==
    \A r \in Reqs :
        ( /\ After(r)
          /\ Resolves(cmd[r])
          /\ ~InDb(cmd[r].Name)
          /\ ~Exists(pre[r].pipelines, cmd[r].Name)
          /\ \A i \in DOMAIN cmd[r].Stages : ~Exists(pre[r].stages, DerivedName(cmd[r], i))
          /\ ret[r].err \notin StoreFaults )
        => /\ ret[r].err = NoErr
           /\ ret[r].result # Nil
           /\ ret[r].result.Name = cmd[r].Name
           /\ BagIn(ret[r].result, pipelineCRs)
           /\ pre[r].pipelines \sqsubseteq pipelineCRs
           /\ pre[r].stages \sqsubseteq stageCRs
           /\ BagCardinality(NewPipelines(r)) = 1
           /\ BagCardinality(NewStages(r)) = Len(cmd[r].Stages)
           /\ \A x \in BagToSet(NewPipelines(r)) :
                 x.Name = cmd[r].Name /\ x.Status = "initialized"
           /\ \A x \in BagToSet(NewStages(r)) : x.Status = "initialized"
           /\ \A i \in DOMAIN cmd[r].Stages :
                 \E x \in BagToSet(NewStages(r)) :
                     /\ x.Name = DerivedName(cmd[r], i)
                     /\ CopiesIn(x, NewStages(r)) = 1

\* C1 witness: a call with two stages has succeeded on a store that already
\* held another pipeline.
C1_Witness ==
    \E r \in Reqs :
        /\ After(r)
        /\ ret[r].err = NoErr
        /\ Len(cmd[r].Stages) = 2
        /\ pre[r].pipelines # EmptyBag
        /\ BagCardinality(NewStages(r)) = 2

\* C2: when the name is in the read model the call fails and writes nothing;
\* with resolving references and a read-model query that itself succeeds,
\* the error is ErrCDPipelineIsExists.
C2_ExistsInReadModel ==
    \A r \in Reqs :
        (Done(r) /\ InDb(cmd[r].Name))
        => /\ ret[r].err # NoErr
           /\ ret[r].result = Nil
           /\ NoWrites(r)
           /\ (Resolves(cmd[r]) /\ ret[r].err # "ErrDatabase")
                 => ret[r].err = "ErrCDPipelineIsExists"

\* C2 witness: a resolving command whose name is in the read model was
\* refused as existing, on a store that is not empty.
C2_Witness ==
    \E r \in Reqs :
        /\ After(r)
        /\ InDb(cmd[r].Name)
        /\ Resolves(cmd[r])
        /\ ret[r].err = "ErrCDPipelineIsExists"
        /\ pipelineCRs # EmptyBag

\* C3: when the name is not in the read model but a pipeline resource of
\* that name is in the resource store when the call starts, the call fails
\* and writes nothing, with ErrCDPipelineIsExists unless a reference does not
\* resolve or a lookup itself fails; a call never succeeds when either store
\* holds the name.
C3_ExistsInResourceStore ==
    \A r \in Reqs :
        /\ (Done(r) /\ ~InDb(cmd[r].Name) /\ Exists(pre[r].pipelines, cmd[r].Name))
           => /\ ret[r].err # NoErr
              /\ ret[r].result = Nil
              /\ NoWrites(r)
              /\ (Resolves(cmd[r]) /\ ret[r].err \notin LookupFaults)
                    => ret[r].err = "ErrCDPipelineIsExists"
        /\ (Done(r) /\ (InDb(cmd[r].Name) \/ Exists(pre[r].pipelines, cmd[r].Name)))
           => ret[r].err # NoErr

\* C3 witness: the name is only in the resource store and the call was
\* refused as existing.
C3_Witness ==
    \E r \in Reqs :
        /\ Done(r)
        /\ ~InDb(cmd[r].Name)
        /\ Exists(pre[r].pipelines, cmd[r].Name)
        /\ ret[r].err = "ErrCDPipelineIsExists"
        /\ Issued(r, "k8s.GetPipeline")

\* C4: when a reference does not resolve the call fails with
\* ErrNonValidRelatedBranch before any store call: it writes nothing.
C4_InvalidReference ==
    \A r \in Reqs :
        (Done(r) /\ ~Resolves(cmd[r]))
        => /\ ret[r].err = "ErrNonValidRelatedBranch"
           /\ ret[r].result = Nil
           /\ calls[r] = <<>>
           /\ cdPipelineCr[r] = Nil
           /\ stagesCr[r] = <<>>
           /\ NoWrites(r)

\* C4 witness: a command whose second reference does not resolve, and whose
\* name is free, was refused.
C4_Witness ==
    \E r \in Reqs :
        /\ After(r)
        /\ cmd[r].Applications = <<KnownBranch, UnknownBranch>>
        /\ ~InDb(cmd[r].Name)
        /\ ~Exists(pipelineCRs, cmd[r].Name)
        /\ ret[r].err = "ErrNonValidRelatedBranch"

\* C5: when the same command is submitted twice, the second call starting
\* after the first has succeeded, the second call fails; it fails with
\* ErrCDPipelineIsExists unless one of its lookups itself fails.
C5_SecondSubmissionFails ==
    \A r, q \in Reqs :
        ( /\ q < r
          /\ Done(r) /\ Done(q)
          /\ ~overlap[r]
          /\ cmd[r] = cmd[q]
          /\ ret[q].err = NoErr )
        => /\ ret[r].err # NoErr
           /\ ret[r].result = Nil
           /\ ret[r].err \notin LookupFaults => ret[r].err = "ErrCDPipelineIsExists"

\* C5 witness: the second of two equal commands was refused as existing
\* after the first succeeded with two stages.
C5_Witness ==
    \E r, q \in Reqs :
        /\ q < r
        /\ Done(r) /\ Done(q)
        /\ ~overlap[r]
        /\ cmd[r] = cmd[q]
        /\ Len(cmd[q].Stages) = 2
        /\ ret[q].err = NoErr
        /\ ret[r].err = "ErrCDPipelineIsExists"

\* C6: a call that ends with the stage-exists error returns no result, has
\* persisted its pipeline resource, which stays in the store, and has
\* written no stage resource; in every call all stage lookups come before
\* the first stage create; and a call running alone whose pipeline name is
\* free but one of whose derived stage names is taken ends with that error
\* unless a store call fails.
C6_StageAlreadyExists ==
    \A r \in Reqs :
        /\ (Done(r) /\ ret[r].err = "ErrStageExists")
           => /\ ret[r].result = Nil
              /\ cdPipelineCr[r] = PipelineCrd(cmd[r])
              /\ BagIn(cdPipelineCr[r], pipelineCRs)
              /\ stagesCr[r] = <<>>
              /\ ~Issued(r, "k8s.PostStage")
              /\ After(r) => /\ pipelineCRs = pre[r].pipelines (+) SetToBag({cdPipelineCr[r]})
                             /\ stageCRs = pre[r].stages
        /\ Issued(r, "k8s.PostStage")
           => /\ CountCalls(r, "k8s.GetStage") = Len(cmd[r].Stages)
              /\ \A i, j \in DOMAIN calls[r] :
                    (calls[r][i] = "k8s.GetStage" /\ calls[r][j] = "k8s.PostStage") => i < j
        /\ ( /\ After(r)
             /\ Resolves(cmd[r])
             /\ ~InDb(cmd[r].Name)
             /\ ~Exists(pre[r].pipelines, cmd[r].Name)
             /\ \E i \in DOMAIN cmd[r].Stages : Exists(pre[r].stages, DerivedName(cmd[r], i))
             /\ ret[r].err \notin StoreFaults )
           => ret[r].err = "ErrStageExists"

\* C6 witness: the second stage of a two-stage command collided with a
\* stage resource of another pipeline; the pipeline resource is in the store.
C6_Witness ==
    \E r \in Reqs :
        /\ After(r)
        /\ ret[r].err = "ErrStageExists"
        /\ Len(cmd[r].Stages) = 2
        /\ CountCalls(r, "k8s.GetStage") = 2
        /\ Exists(pipelineCRs, cmd[r].Name)
        /\ ~Exists(pre[r].pipelines, cmd[r].Name)

\* the stage resources of the first n requested stages of a command
FirstStageCrds(c, n) == [i \in 1..n |-> createCrd(c.Name, c.Stages[i])]

\* C7: a call whose k-th stage create fails returns that error and no
\* result; the pipeline resource and the first k-1 stage resources it wrote
\* stay in the store, and no create follows the failed one.
C7_StageCreateFails ==
    \A r \in Reqs :
        LET k == CountCalls(r, "k8s.PostStage")
        IN  (Done(r) /\ k > 0 /\ ret[r].err # NoErr)
            => /\ ret[r].err \in {"ErrK8sCreate", "ErrK8sAlreadyExists"}
               /\ ret[r].result = Nil
               /\ k <= Len(cmd[r].Stages)
               /\ calls[r][Len(calls[r])] = "k8s.PostStage"
               /\ stagesCr[r] = FirstStageCrds(cmd[r], k - 1)
               /\ BagIn(PipelineCrd(cmd[r]), pipelineCRs)
               /\ \A i \in 1..(k - 1) : BagIn(stagesCr[r][i], stageCRs)
               /\ After(r) =>
                     /\ pipelineCRs = pre[r].pipelines (+) SetToBag({PipelineCrd(cmd[r])})
                     /\ stageCRs = pre[r].stages (+) SeqToBag(stagesCr[r])

\* C7 witness: the second stage create of a call failed after the first had
\* succeeded, and the first stage resource is what the call added.
C7_Witness ==
    \E r \in Reqs :
        /\ After(r)
        /\ ret[r].err = "ErrK8sCreate"
        /\ CountCalls(r, "k8s.PostStage") = 2
        /\ Len(stagesCr[r]) = 1
        /\ BagCardinality(NewStages(r)) = 1

\* C8: the resource store rejecting a create of a taken name, of two
\* requests for one pipeline name at most one succeeds, the store never holds
\* two pipeline resources of one name, and a request whose pipeline create
\* did not succeed issues no stage create.
C8_StoreRejectsSecondCreate ==
    /\ \A n \in PipelineNames : CountNamed(pipelineCRs, n) <= 1
    /\ \A r, q \in Reqs :
          (r # q /\ cmd[r].Name = cmd[q].Name /\ Done(r) /\ Done(q))
          => ~(ret[r].err = NoErr /\ ret[q].err = NoErr)
    /\ \A r \in Reqs :
          (Issued(r, "k8s.PostPipeline") /\ cdPipelineCr[r] = Nil)
          => (~Issued(r, "k8s.PostStage") /\ stagesCr[r] = <<>>)

\* C8 witness: two overlapping requests for one name both issued the
\* pipeline create; one was rejected by the store and the other succeeded.
C8_Witness ==
    \E r, q \in Reqs :
        /\ r # q
        /\ cmd[r].Name = cmd[q].Name
        /\ overlap[r] \/ overlap[q]
        /\ Done(r) /\ Done(q)
        /\ ret[r].err = "ErrK8sAlreadyExists"
        /\ calls[r][Len(calls[r])] = "k8s.PostPipeline"
        /\ ret[q].err = NoErr

\* C9: no step of a creation is held back by another request: a request at
\* a store call can always issue it, wherever the other request stands, so
\* two requests for one name can both pass both existence checks and both
\* issue the pipeline create.
C9_NoMutualExclusion ==
    \A r \in Reqs :
        /\ pc[r] = "readModel" => ENABLED CheckReadModel(r)
        /\ pc[r] = "getCR" => ENABLED CheckPipelineCR(r)
        /\ pc[r] = "postPipeline" => ENABLED PostPipeline(r)
        /\ pc[r] = "checkStages" => ENABLED CheckStage(r)
        /\ pc[r] = "saveStages" => ENABLED SaveStage(r)

\* C9 witness: two requests for one name have both passed both existence
\* checks and both issued the pipeline create.
C9_Witness ==
    \E r, q \in Reqs :
        /\ r # q
        /\ cmd[r].Name = cmd[q].Name
        /\ calls[r] = <<"db.GetCDPipelineByName", "k8s.GetPipeline", "k8s.PostPipeline">>
        /\ Len(calls[q]) >= 3
        /\ SubSeq(calls[q], 1, 3) = calls[r]

-----------------------------------------------------------------------------
(* Properties of the read path *)

\* the stored fields of a stage of a view
Stored(stage) == [stage EXCEPT !.OpenshiftProjectLink = <<>>]

\* C10: the stage list of a view returned by GetCDPipelineByName is a
\* permutation of the stored stages of that pipeline, in ascending Order.
C10_StagesSortedPermutation ==
    (view.op = "GetCDPipelineByName" /\ view.err = NoErr /\ view.result # Nil)
    => LET row == FindPipelineByName(view.result.Name)
           got == view.result.Stage
       IN  /\ Len(got) = Len(row.Stage)
           /\ \E p \in Perms(Len(got)) :
                 \A i \in DOMAIN got : Stored(got[i]) = row.Stage[p[i]]
           /\ \A i, j \in DOMAIN got : i < j => got[i].Order <= got[j].Order

\* C10 witness: stages stored with Orders 2, 0, 1 are returned as 0, 1, 2.
C10_Witness ==
    /\ view.op = "GetCDPipelineByName"
    /\ view.err = NoErr
    /\ view.result # Nil
    /\ LET row == FindPipelineByName(view.result.Name)
           got == view.result.Stage
       IN  /\ Len(row.Stage) = 3
           /\ [i \in 1..3 |-> row.Stage[i].Order] = <<2, 0, 1>>
           /\ [i \in 1..3 |-> got[i].Order] = <<0, 1, 2>>
           /\ [i \in 1..3 |-> got[i].Id] = <<2, 3, 1>>

-----------------------------------------------------------------------------
(* Properties of the derived names *)

\* C12: the stage resource CreatePipeline is about to look up or create is
\* named <pipelineName>-<stageName>, lookup and create deriving the name alike;
\* the stage resources a call wrote carry these names and are in the store;
\* and the store never holds two stage resources of one name.
C12_StageNamesDerivedAndUnique ==
    /\ \A r \in Reqs :
          pc[r] \in {"checkStages", "saveStages"}
          => LET stage == cmd[r].Stages[idx[r]]
             IN  /\ checkStageName(cmd[r].Name, stage) = DerivedName(cmd[r], idx[r])
                 /\ createCrd(cmd[r].Name, stage).Name = DerivedName(cmd[r], idx[r])
    /\ \A r \in Reqs : \A i \in DOMAIN stagesCr[r] :
          /\ stagesCr[r][i].Name = DerivedName(cmd[r], i)
          /\ stagesCr[r][i] \in DOMAIN stageCRs
    /\ \A x \in DOMAIN stageCRs :
          /\ stageCRs[x] = 1
          /\ \A y \in DOMAIN stageCRs : x.Name = y.Name => x = y

\* C12 witness: two overlapping requests for different pipelines derived the
\* same stage resource name; both lookups answered NotFound, one create
\* succeeded and the store rejected the other.
C12_Witness ==
    \E r, q \in Reqs :
        /\ cmd[r].Name # cmd[q].Name
        /\ Len(cmd[r].Stages) = 1 /\ Len(cmd[q].Stages) = 1
        /\ DerivedName(cmd[r], 1) = DerivedName(cmd[q], 1)
        /\ Done(r) /\ ret[r].err = NoErr
        /\ Done(q) /\ ret[q].err = "ErrK8sAlreadyExists"
        /\ calls[q][Len(calls[q])] = "k8s.PostStage"
        /\ CountNamed(stageCRs, DerivedName(cmd[r], 1)) = 1

\* the characters [a-z0-9] of the name pattern
AlphaNum ==
    { "a", "b", "c", "d", "e", "f", "g", "h", "i", "j", "k", "l", "m",
      "n", "o", "p", "q", "r", "s", "t", "u", "v", "w", "x", "y", "z",
      "0", "1", "2", "3", "4", "5", "6", "7", "8", "9" }

\* the pattern ^[a-z0-9]([-a-z0-9]*[a-z0-9])$ the names are validated against
MatchesNamePattern(name) ==
    /\ Len(name) >= 2
    /\ name[1] \in AlphaNum
    /\ name[Len(name)] \in AlphaNum
    /\ \A i \in DOMAIN name : name[i] \in AlphaNum \cup {"-"}

\* the project link createOpenshiftProjectLinks gives a stage of a pipeline
ProjectLinkOf(cdPipelineName, stageName) ==
    createOpenshiftProjectLinks(<<StageRow(1, stageName, 0)>>,
                                cdPipelineName)[1].OpenshiftProjectLink

\* C13: for names the pattern accepts, the derived stage resource name and
\* the project link determine the pipeline name and the stage name they were
\* built from: two different pairs never give the same name or link.
C13_DerivationInjective ==
    \A r, q \in Reqs : \A i \in DOMAIN cmd[r].Stages : \A j \in DOMAIN cmd[q].Stages :
        LET pr == cmd[r].Name
            sr == cmd[r].Stages[i]
            pq == cmd[q].Name
            sq == cmd[q].Stages[j]
        IN  ( /\ MatchesNamePattern(pr) /\ MatchesNamePattern(sr.Name)
              /\ MatchesNamePattern(pq) /\ MatchesNamePattern(sq.Name)
              /\ \/ createCrd(pr, sr).Name = createCrd(pq, sq).Name
                 \/ ProjectLinkOf(pr, sr.Name) = ProjectLinkOf(pq, sq.Name) )
            => (pr = pq /\ sr.Name = sq.Name)

-----------------------------------------------------------------------------
(* Properties of the read operations *)

\* C14: GetCDPipelineByName for a name the read model does not hold returns
\* nil and no error, nothing being enriched; it returns an error, and then no
\* result, only when the read-model query itself fails.
C14_AbsentNameIsNil ==
    /\ \A n \in PipelineNames :
          ~InDb(n) => { o \in GetCDPipelineByName(n) : o.err = NoErr }
                          = { [result |-> Nil, err |-> NoErr] }
    /\ view.op = "GetCDPipelineByName"
       => /\ ~InDb(view.arg) => (view.result = Nil /\ view.err \in {NoErr, "ErrDatabase"})
          /\ view.err # NoErr => (view.err = "ErrDatabase" /\ view.result = Nil)

\* C14 witness: the read model holds a pipeline, and a read of the other
\* name returned nil without error.
C14_Witness ==
    /\ view.op = "GetCDPipelineByName"
    /\ db # {}
    /\ ~InDb(view.arg)
    /\ view.result = Nil
    /\ view.err = NoErr

\* C15: GetAllPipelines returns, unless the query fails, exactly the
\* pipelines the query matched, each once and each carrying its CI link and
\* otherwise as stored; when none match it returns the empty collection and
\* no error; the only error is that of the query, with no pipelines.
C15_ListReturnsMatchesLinked ==
    view.op = "GetAllPipelines"
    => LET matches == { row \in db : row.Name \in view.arg }
           got == view.result
       IN  IF view.err = NoErr
           THEN /\ Len(got) = Cardinality(matches)
                /\ { [got[i] EXCEPT !.JenkinsLink = <<>>] : i \in DOMAIN got } = matches
                /\ \A i \in DOMAIN got :
                      /\ got[i].JenkinsLink # <<>>
                      /\ got[i].JenkinsLink = JenkinsLinkOf(got[i].Name)
                /\ matches = {} => got = <<>>
           ELSE view.err = "ErrDatabase" /\ got = <<>>

\* C15 witness: a list query matching both stored pipelines returned both,
\* each with its CI link.
C15_Witness ==
    /\ view.op = "GetAllPipelines"
    /\ view.err = NoErr
    /\ Cardinality(db) = 2
    /\ Len(view.result) = 2
    /\ view.result[1].Name # view.result[2].Name
    /\ \A i \in 1..2 : view.result[i].JenkinsLink = JenkinsLinkOf(view.result[i].Name)

-----------------------------------------------------------------------------
(* Properties of the whole service *)

\* C16: no step of CreatePipeline, GetCDPipelineByName, GetAllPipelines or
\* GetStage changes the read model, and a step of one of the three reads (a
\* step that moves no creation) leaves the resource store unchanged too.
C16_ReadModelNeverWritten ==
    [][ /\ db' = db
        /\ UNCHANGED createVars => UNCHANGED <<pipelineCRs, stageCRs>> ]_vars

\* C16 witness: a creation has written both a pipeline and a stage resource
\* and returned, a list read has answered since, and the read model still
\* does not hold the created pipeline.
C16_Witness ==
    /\ Done(1)
    /\ ret[1].err = NoErr
    /\ pipelineCRs # EmptyBag
    /\ stageCRs # EmptyBag
    /\ view.op = "GetAllPipelines"
    /\ view.err = NoErr
    /\ ~InDb(cmd[1].Name)

\* C17: after a CreatePipeline that succeeded, the Order values of the stage
\* resources it created are non-negative and pairwise different.
C17_OrdersUniqueNonNegative ==
    \A r \in Reqs :
        (Done(r) /\ ret[r].err = NoErr)
        => \A i, j \in DOMAIN stagesCr[r] :
              /\ stagesCr[r][i].Spec.Order >= 0
              /\ i # j => stagesCr[r][i].Spec.Order # stagesCr[r][j].Spec.Order

-----------------------------------------------------------------------------
(* Properties of the call sequence of CreatePipeline *)

\* request r can take its next step
CanStep(r) ==
    ENABLED ( \/ CheckReadModel(r) \/ CheckPipelineCR(r) \/ PostPipeline(r)
              \/ CheckStage(r) \/ SaveStage(r) )

\* C18: a CreatePipeline call with N stages issues at most one read-model
\* query, one pipeline lookup, one pipeline create, N stage lookups and N
\* stage creates; until it returns it can always take its next step, so it
\* ends after at most 3 + 2N store calls; a create that failed, and any store
\* error returned, is that of the last call issued: nothing follows it.
C18_NoRetriesTerminates ==
    \A r \in Reqs :
        LET n == Len(cmd[r].Stages)
            last == calls[r][Len(calls[r])]
        IN  /\ CountCalls(r, "db.GetCDPipelineByName") <= 1
            /\ CountCalls(r, "k8s.GetPipeline") <= 1
            /\ CountCalls(r, "k8s.PostPipeline") <= 1
            /\ CountCalls(r, "k8s.GetStage") <= n
            /\ CountCalls(r, "k8s.PostStage") <= n
            /\ Active(r) => CanStep(r)
            /\ (Issued(r, "k8s.PostPipeline") /\ cdPipelineCr[r] = Nil)
               => (Done(r) /\ last = "k8s.PostPipeline"
                     /\ ret[r].err \in {"ErrK8sCreate", "ErrK8sAlreadyExists"})
            /\ Len(stagesCr[r]) < CountCalls(r, "k8s.PostStage")
               => (Done(r) /\ last = "k8s.PostStage"
                     /\ ret[r].err \in {"ErrK8sCreate", "ErrK8sAlreadyExists"})
            /\ (Done(r) /\ ret[r].err \in StoreFaults)
               => /\ ret[r].result = Nil
                  /\ ret[r].err = "ErrDatabase" => last = "db.GetCDPipelineByName"
                  /\ ret[r].err = "ErrK8sGet" => last \in {"k8s.GetPipeline", "k8s.GetStage"}
                  /\ ret[r].err \in {"ErrK8sCreate", "ErrK8sAlreadyExists"}
                        => last \in {"k8s.PostPipeline", "k8s.PostStage"}

\* C18 witness: a call with two stages issued all seven store calls, the
\* last create failed, and the call returned that error.
C18_Witness ==
    \E r \in Reqs :
        /\ Done(r)
        /\ Len(cmd[r].Stages) = 2
        /\ calls[r] = <<"db.GetCDPipelineByName", "k8s.GetPipeline", "k8s.PostPipeline",
                        "k8s.GetStage", "k8s.GetStage", "k8s.PostStage", "k8s.PostStage">>
        /\ ret[r].err = "ErrK8sCreate"

\* the store calls of a call that meets no error, in the order of the code
FullCallSequence(n) ==
    <<"db.GetCDPipelineByName", "k8s.GetPipeline", "k8s.PostPipeline">>
        \o [i \in 1..n |-> "k8s.GetStage"] \o [i \in 1..n |-> "k8s.PostStage"]

\* C19: the checks of CreatePipeline run in the order reference resolution,
\* read model, resource store, the first failing one deciding the error: a
\* command with an unresolved reference is refused as such without any store
\* call, whichever store holds its name; a call whose name is in the read
\* model queries the read model and never the resource store; and the store
\* calls of every call are an initial part of the one fixed sequence.
C19_CheckOrder ==
    \A r \in Reqs :
        /\ (Done(r) /\ ~Resolves(cmd[r]))
           => (ret[r].err = "ErrNonValidRelatedBranch" /\ calls[r] = <<>>)
        /\ (pc[r] # "idle" /\ Resolves(cmd[r]) /\ InDb(cmd[r].Name))
           => /\ calls[r] \in {<<>>, <<"db.GetCDPipelineByName">>}
              /\ Done(r) => ret[r].err \in {"ErrCDPipelineIsExists", "ErrDatabase"}
        /\ calls[r] = SubSeq(FullCallSequence(Len(cmd[r].Stages)), 1, Len(calls[r]))

\* C19 witness: one request with an unresolved reference and a name held by
\* the read model was refused for the reference; another, all references
\* resolving and the same name, was refused as existing after the read-model
\* query alone.
C19_Witness ==
    \E r, q \in Reqs :
        /\ Done(r) /\ ~Resolves(cmd[r]) /\ InDb(cmd[r].Name)
        /\ ret[r].err = "ErrNonValidRelatedBranch"
        /\ Done(q) /\ Resolves(cmd[q]) /\ cmd[q].Name = cmd[r].Name
        /\ ret[q].err = "ErrCDPipelineIsExists"
        /\ calls[q] = <<"db.GetCDPipelineByName">>

\* the last store call request r issued
LastCall(r) == calls[r][Len(calls[r])]

\* what a lookup step of request r may do, the store answering found or not
LookupStep(r, call, found, conflict, next) ==
    calls'[r] = Append(calls[r], call)
    => /\ UNCHANGED <<pipelineCRs, stageCRs>>
       /\ IF pc'[r] = "done"
          THEN /\ ret'[r].result = Nil
               /\ \/ ret'[r].err = "ErrK8sGet"
                  \/ found /\ ret'[r].err = conflict
          ELSE ~found /\ pc'[r] \in next

\* C20: the pipeline lookup and every stage lookup let the call go on only
\* when the store answers NotFound: when the resource is found the call ends
\* with the conflict error, when the lookup fails otherwise it ends with that
\* error, and in both cases the call has not created, and does not create,
\* the resource it looked up; a lookup changes nothing in the store.
C20_OnlyNotFoundProceeds ==
    /\ [](\A r \in Reqs :
            /\ pc[r] = "getCR"
               => ( ([result |-> Nil, err |-> NoErr] \in getCDPipelineCR(cmd[r].Name))
                        <=> ~Exists(pipelineCRs, cmd[r].Name) )
            /\ pc[r] = "checkStages"
               => ( (NoErr \in checkStageInK8s(cmd[r].Name, cmd[r].Stages[idx[r]]))
                        <=> ~Exists(stageCRs, DerivedName(cmd[r], idx[r])) )
            /\ (Done(r) /\ calls[r] # <<>> /\ LastCall(r) = "k8s.GetPipeline")
               => /\ ret[r].err \in {"ErrCDPipelineIsExists", "ErrK8sGet"}
                  /\ cdPipelineCr[r] = Nil
                  /\ ~Issued(r, "k8s.PostPipeline")
            /\ (Done(r) /\ calls[r] # <<>> /\ LastCall(r) = "k8s.GetStage")
               => /\ ret[r].err \in {"ErrStageExists", "ErrK8sGet"}
                  /\ stagesCr[r] = <<>>
                  /\ ~Issued(r, "k8s.PostStage"))
    /\ [][\A r \in Reqs :
            /\ LookupStep(r, "k8s.GetPipeline", Exists(pipelineCRs, cmd[r].Name),
                          "ErrCDPipelineIsExists", {"postPipeline"})
            /\ LookupStep(r, "k8s.GetStage",
                          pc[r] = "checkStages"
                              /\ Exists(stageCRs, DerivedName(cmd[r], idx[r])),
                          "ErrStageExists", {"checkStages", "saveStages"})]_vars

\* C20 witness: one request went past its pipeline lookup and both stage
\* lookups and created everything; a later one for the same name found the
\* pipeline resource at its lookup and ended there with the conflict error.
C20_Witness ==
    \E r, q \in Reqs :
        /\ Done(r) /\ ret[r].err = NoErr /\ Len(cmd[r].Stages) = 2
        /\ Done(q) /\ ret[q].err = "ErrCDPipelineIsExists"
        /\ cmd[q].Name = cmd[r].Name
        /\ LastCall(q) = "k8s.GetPipeline"
        /\ cdPipelineCr[q] = Nil
        /\ CountNamed(pipelineCRs, cmd[q].Name) = 1

-----------------------------------------------------------------------------
(* Properties of a creation that fails part-way *)

\* request r issued the pipeline create and the create did not succeed
PipelinePostFailed(r) == Issued(r, "k8s.PostPipeline") /\ cdPipelineCr[r] = Nil

\* C21: when the create of the pipeline resource fails, CreatePipeline
\* returns that error and no result, having issued no stage lookup and no
\* stage create; the store holds no stage resource written by that call.
C21_PipelinePostFailureStops ==
    \A r \in Reqs :
        PipelinePostFailed(r)
        => /\ Done(r)
           /\ ret[r].err \in {"ErrK8sCreate", "ErrK8sAlreadyExists"}
           /\ ret[r].result = Nil
           /\ LastCall(r) = "k8s.PostPipeline"
           /\ ~Issued(r, "k8s.GetStage")
           /\ ~Issued(r, "k8s.PostStage")
           /\ stagesCr[r] = <<>>
           /\ After(r) => (stageCRs = pre[r].stages /\ pipelineCRs = pre[r].pipelines)

\* C21 witness: a call with two stages whose pipeline create failed returned
\* after three store calls, and the store holds no resource at all.
C21_Witness ==
    \E r \in Reqs :
        /\ After(r)
        /\ Len(cmd[r].Stages) = 2
        /\ ret[r].err = "ErrK8sCreate"
        /\ calls[r] = <<"db.GetCDPipelineByName", "k8s.GetPipeline", "k8s.PostPipeline">>
        /\ stageCRs = EmptyBag
        /\ pipelineCRs = EmptyBag

-----------------------------------------------------------------------------
(* Properties of the views *)

\* the stored fields of a branch association of a view
StoredBranch(branch) ==
    [branch EXCEPT !.AppName = <<>>, !.VCSLink = <<>>, !.CICDLink = <<>>]

\* C22: for a pipeline the read model holds, GetCDPipelineByName returns,
\* unless the query fails, a view of that pipeline in which every stage
\* carries the project link https://master.<wildcard>/console/project/
\* <tenant>-<pipeline>-<stage>, every branch association has the name of its
\* codebase as AppName, and the stages and branch associations are otherwise
\* the stored ones, each once.
C22_ViewEnriched ==
    (view.op = "GetCDPipelineByName" /\ InDb(view.arg) /\ view.err = NoErr)
    => /\ view.result # Nil
       /\ view.result.Name = view.arg
       /\ LET row == FindPipelineByName(view.arg)
              stages == view.result.Stage
              branches == view.result.CodebaseBranch
          IN  /\ \A i \in DOMAIN stages :
                    stages[i].OpenshiftProjectLink =
                        <<"https://master.", "w", "/console/project/", "t", "-">>
                            \o view.arg \o <<"-">> \o stages[i].Name
              /\ Len(stages) = Len(row.Stage)
              /\ { Stored(stages[i]) : i \in DOMAIN stages } = Range(row.Stage)
              /\ \A i \in DOMAIN branches :
                    branches[i].AppName = branches[i].Codebase.Name
              /\ [i \in DOMAIN branches |-> StoredBranch(branches[i])]
                    = row.CodebaseBranch

\* C22 witness: a view of a stored pipeline with three stages, not all of
\* one name, each with its own link, and a branch association named after
\* its codebase.
C22_Witness ==
    /\ view.op = "GetCDPipelineByName"
    /\ view.err = NoErr
    /\ InDb(view.arg)
    /\ Len(view.result.Stage) = 3
    /\ view.result.Stage[1].Name # view.result.Stage[2].Name
    /\ view.result.Stage[1].OpenshiftProjectLink # view.result.Stage[2].OpenshiftProjectLink
    /\ Len(view.result.CodebaseBranch) = 1
    /\ view.result.CodebaseBranch[1].AppName = <<"s", "v", "c">>

\* the (pipeline name, CI link) pairs a reader sees in an answer
LinksOf(v) ==
    IF v.err # NoErr THEN {}
    ELSE IF v.op = "GetAllPipelines"
    THEN { <<v.result[i].Name, v.result[i].JenkinsLink>> : i \in DOMAIN v.result }
    ELSE IF v.op = "GetCDPipelineByName" /\ v.result # Nil
    THEN { <<v.result.Name, v.result.JenkinsLink>> }
    ELSE {}

\* C23: the CI link is the same on both read paths and on every read: for
\* every stored pipeline createJenkinsLinks and createJenkinsLink give the
\* same link; every link a reader sees, from GetAllPipelines or from
\* GetCDPipelineByName, is https://jenkins-<tenant>-edp-cicd.<wildcard>/job/
\* <name>-cd-pipeline; and two consecutive answers give a pipeline they both
\* hold the same link.
C23_SameLinkOnBothPaths ==
    /\ [](/\ \A row \in db :
                createJenkinsLinks(<<row>>)[1].JenkinsLink = createJenkinsLink(row).JenkinsLink
          /\ \A l \in LinksOf(view) :
                l[2] = <<"https://", "jenkins", "-", "t", "-edp-cicd.", "w", "/job/">>
                           \o l[1] \o <<"-", "cd-pipeline">>)
    /\ [][\A a \in LinksOf(view) : \A b \in LinksOf(view') : a[1] = b[1] => a[2] = b[2]]_vars

\* C23 witness: a list answer holds two pipelines, and the link of each is
\* the one GetCDPipelineByName builds for the same stored row.
C23_Witness ==
    /\ view.op = "GetAllPipelines"
    /\ view.err = NoErr
    /\ Len(view.result) = 2
    /\ \A i \in 1..2 :
          /\ InDb(view.result[i].Name)
          /\ view.result[i].JenkinsLink
                = createJenkinsLink(FindPipelineByName(view.result[i].Name)).JenkinsLink
          /\ view.result[i].JenkinsLink # <<>>

\* the positions of the stages of c whose name an earlier stage of c has
Repeats(c) ==
    { j \in DOMAIN c.Stages : \E i \in 1..(j - 1) : c.Stages[i].Name = c.Stages[j].Name }

\* the least element of a non-empty set of numbers
Least(S) == CHOOSE k \in S : \A m \in S : k <= m

\* C24: a command naming one stage twice, run alone against stores that
\* hold nothing and with no store call failing for another reason: every
\* stage lookup answers NotFound, the stages before the repeated one are
\* created, the create of the repeated one is rejected by the store, and the
\* call returns that error and no result; the pipeline resource and the
\* stage resources created before stay in the store. Such a call never
\* succeeds.
C24_RepeatedStageName ==
    \A r \in Reqs :
        ( /\ After(r)
          /\ Resolves(cmd[r])
          /\ db = {}
          /\ pre[r] = EmptyStore
          /\ Repeats(cmd[r]) # {} )
        => LET k == Least(Repeats(cmd[r]))
           IN  /\ ret[r].err # NoErr
               /\ ret[r].result = Nil
               /\ ret[r].err \notin {"ErrDatabase", "ErrK8sGet", "ErrK8sCreate"}
                  => /\ ret[r].err = "ErrK8sAlreadyExists"
                     /\ CountCalls(r, "k8s.GetStage") = Len(cmd[r].Stages)
                     /\ CountCalls(r, "k8s.PostStage") = k
                     /\ LastCall(r) = "k8s.PostStage"
                     /\ stagesCr[r] = FirstStageCrds(cmd[r], k - 1)
                     /\ pipelineCRs = SetToBag({PipelineCrd(cmd[r])})
                     /\ stageCRs = SeqToBag(FirstStageCrds(cmd[r], k - 1))

\* C24 witness: a command with the stage ef twice passed both lookups,
\* created the first stage and had the second create rejected; the pipeline
\* resource and one stage resource are in the store.
C24_Witness ==
    \E r \in Reqs :
        /\ After(r)
        /\ db = {}
        /\ pre[r] = EmptyStore
        /\ Len(cmd[r].Stages) = 2
        /\ cmd[r].Stages[1].Name = cmd[r].Stages[2].Name
        /\ ret[r].err = "ErrK8sAlreadyExists"
        /\ CountCalls(r, "k8s.GetStage") = 2
        /\ CountCalls(r, "k8s.PostStage") = 2
        /\ BagCardinality(pipelineCRs) = 1
        /\ BagCardinality(stageCRs) = 1

\* request q persisted its pipeline resource and then failed
FailedPartWay(q) == Done(q) /\ cdPipelineCr[q] # Nil /\ ret[q].err # NoErr

\* the stage resources whose back-reference names pipeline n
StagesOf(n) == { x \in DOMAIN stageCRs : x.Spec.CdPipeline = n }

\* C25: once a call has persisted its pipeline resource and then failed at a
\* stage lookup or stage create, a later call for the same pipeline name
\* issues no stage lookup and no stage create and fails: with
\* ErrCDPipelineIsExists, unless one of its references does not resolve or
\* one of its own lookups fails; and the stage resources of that pipeline
\* stay those the failed call had written.
C25_PartialPipelineStaysPartial ==
    \A q \in Reqs :
        FailedPartWay(q)
        => /\ StagesOf(cmd[q].Name) = Range(stagesCr[q])
           /\ \A r \in Reqs :
                 (q < r /\ ~overlap[r] /\ pc[r] # "idle" /\ cmd[r].Name = cmd[q].Name)
                 => /\ ~Issued(r, "k8s.PostPipeline")
                    /\ ~Issued(r, "k8s.GetStage")
                    /\ ~Issued(r, "k8s.PostStage")
                    /\ stagesCr[r] = <<>>
                    /\ Done(r)
                       => /\ ret[r].err # NoErr
                          /\ ret[r].result = Nil
                          /\ (Resolves(cmd[r]) /\ ret[r].err \notin LookupFaults)
                                => ret[r].err = "ErrCDPipelineIsExists"

\* C25 witness: a call with two stages created its pipeline resource and its
\* first stage and failed at the second; a later call with the same command
\* was refused at the pipeline lookup, and the second stage is still missing.
C25_Witness ==
    \E q, r \in Reqs :
        /\ q < r /\ ~overlap[r]
        /\ FailedPartWay(q)
        /\ Len(cmd[q].Stages) = 2
        /\ Len(stagesCr[q]) = 1
        /\ cmd[r] = cmd[q]
        /\ Done(r)
        /\ ret[r].err = "ErrCDPipelineIsExists"
        /\ LastCall(r) = "k8s.GetPipeline"
        /\ ~Exists(stageCRs, DerivedName(cmd[q], 2))

\* C26: a call issues a stage create only after its own pipeline create
\* succeeded, and, nothing being deleted, the pipeline named by the
\* back-reference of every stage resource in the store is in the store.
C26_StageHasParent ==
    /\ \A x \in DOMAIN stageCRs : Exists(pipelineCRs, x.Spec.CdPipeline)
    /\ \A r \in Reqs :
          /\ Issued(r, "k8s.PostStage")
             => /\ cdPipelineCr[r] = PipelineCrd(cmd[r])
                /\ cdPipelineCr[r] \in DOMAIN pipelineCRs
                /\ \A i, j \in DOMAIN calls[r] :
                      (calls[r][i] = "k8s.PostPipeline" /\ calls[r][j] = "k8s.PostStage")
                      => i < j
          /\ \A i \in DOMAIN stagesCr[r] : stagesCr[r][i].Spec.CdPipeline = cmd[r].Name

\* C26 witness: the store holds stage resources of two different pipelines,
\* written by two requests, and both pipeline resources.
C26_Witness ==
    \E x, y \in DOMAIN stageCRs :
        /\ x.Spec.CdPipeline # y.Spec.CdPipeline
        /\ Exists(pipelineCRs, x.Spec.CdPipeline)
        /\ Exists(pipelineCRs, y.Spec.CdPipeline)
        /\ \E r, q \in Reqs : r # q /\ x \in Range(stagesCr[r]) /\ y \in Range(stagesCr[q])

\* request r returned its pipeline resource without error
Succeeded(r) == Done(r) /\ ret[r].err = NoErr

\* C27: the read model not being written by the creation, the reads that
\* follow a successful CreatePipeline do not show the created pipeline:
\* GetCDPipelineByName of its name returns nil, with no error unless the
\* query fails, and what GetAllPipelines returns does not hold it.
C27_CreatedPipelineNotRead ==
    /\ [](\A r \in Reqs :
            Succeeded(r)
            => /\ ~InDb(cmd[r].Name)
               /\ \A o \in GetCDPipelineByName(cmd[r].Name) : o.result = Nil
               /\ \A criteria \in Criteria : \A o \in GetAllPipelines(criteria) :
                     \A i \in DOMAIN o.result : o.result[i].Name # cmd[r].Name)
    /\ [][\A r \in Reqs :
            (Succeeded(r) /\ UNCHANGED createVars)
            => /\ (view'.op = "GetCDPipelineByName" /\ view'.arg = cmd[r].Name)
                  => (view'.result = Nil /\ view'.err \in {NoErr, "ErrDatabase"})
               /\ view'.op = "GetAllPipelines"
                  => \A i \in DOMAIN view'.result : view'.result[i].Name # cmd[r].Name]_vars

\* C27 witness: a creation succeeded and its pipeline resource is in the
\* resource store; a read of that name answered nil without error while the
\* read model holds the other pipeline.
C27_Witness ==
    /\ Succeeded(1)
    /\ Exists(pipelineCRs, cmd[1].Name)
    /\ db # {}
    /\ view.op = "GetCDPipelineByName"
    /\ view.arg = cmd[1].Name
    /\ view.result = Nil
    /\ view.err = NoErr

====
